---- MODULE Spec2Model ----
(***************************************************************************)
(* Model of the B3 DateTime API fallback-caching read path:                *)
(*   RedisCache / RedisService  (services/redis_service.py)                *)
(*   GET /v1/hours/open, /v1/hours/close  (routers/hours.py)               *)
(*   GET /v1/hours                         (routers/hours.py)              *)
(*   GET /v1/health                        (routers/health.py)             *)
(*   GET /v1/trading-days                  (routers/dates.py)              *)
(*                                                                         *)
(* Representation.                                                         *)
(*   Optional[T]     : <<>> is None, <<x>> is the value x.                 *)
(*   cache entry     : <<value, timestamp>> (the Python tuple), <<>> None. *)
(*   time, durations : whole clock ticks; one second is TicksPerSecond     *)
(*                     ticks, so timedelta.total_seconds() is a number of  *)
(*                     ticks and int() truncates it to whole seconds.      *)
(*   A handler runs to completion on the event loop (async def without an  *)
(*   await), so it is one action and reads the clock at one instant        *)
(*   (Spec, SpecDates).  SpecConc runs get_value statement by statement    *)
(*   on several threads.                                                   *)
(***************************************************************************)
EXTENDS Integers, Sequences, FiniteSets, TLC

\* ---- bounds of the model ------------------------------------------------
\* last clock tick explored
MaxTime == 6
\* clock resolution: ticks per second
TicksPerSecond == 2
\* settings.cache_ttl_seconds (config.py:22, default 3600 s), scaled down so
\* that ages below, at and above the TTL all occur within MaxTime
cache_ttl_seconds == 1

\* ---- settings -------------------------------------------------------------
redis_key_open == "b3:trading:hours:open"
redis_key_close == "b3:trading:hours:close"
Keys == {redis_key_open, redis_key_close}

\* ---- Python values --------------------------------------------------------
None == <<>>
Some(x) == <<x>>
\* truthiness of an Optional[str]: None and "" are false
TruthyStr(opt) == opt # None /\ opt[1] # ""
\* truthiness of an Optional[float]: None and 0.0 are false
TruthyNum(opt) == opt # None /\ opt[1] # 0
\* int(x) of a non-negative number of seconds held as ticks
int(ticks) == ticks \div TicksPerSecond
\* a number of seconds as ticks
Seconds(s) == s * TicksPerSecond

\* what redis_client.get(key) can return when the store answers
StoreValues == {None, Some(""), Some("10:00"), Some("10:30")}

VARIABLES
    now,          \* datetime.now(TZ), in ticks
    store_up,     \* the remote store answers (no network error / timeout)
    started,      \* the module-level RedisService() was constructed: the app runs
    redis_client, \* TRUE: a client object; FALSE: None
    local_cache,  \* RedisCache.cache : key -> entry
    last_fetch,   \* history: key -> <<value, time>> of the last fetch that obtained a value
    resp,         \* the last response produced by a handler
    inflight      \* get_value calls running on worker threads: caller -> frame

vars == <<now, store_up, started, redis_client, local_cache, last_fetch, resp,
          inflight>>

\* ---- RedisCache -----------------------------------------------------------
\* mutant: an existing entry keeps its old timestamp
set_keeps_timestamp(cache, key, value, t) ==
    [cache EXCEPT ![key] = IF @ = None THEN <<value, t>> ELSE <<value, @[2]>>]

\* mutant: an existing entry is merged, keeping its value
set_keeps_value(cache, key, value, t) ==
    [cache EXCEPT ![key] = IF @ = None THEN <<value, t>> ELSE <<@[1], t>>]

set(cache, key, value, t) == [cache EXCEPT ![key] = <<value, t>>]

get(cache, key) == cache[key]

is_expired(cache, key, ttl_seconds, t) ==
    LET cached == get(cache, key) IN
    IF cached = None THEN TRUE
    ELSE (t - cached[2]) > Seconds(ttl_seconds)

get_age_seconds(cache, key, t) ==
    LET cached == get(cache, key) IN
    IF cached = None THEN None
    ELSE Some(t - cached[2])

\* ---- RedisService ---------------------------------------------------------
\* redis_client.get(key): the store's answer, or an exception when the store
\* is unreachable (connection error, timeout)
redis_get(up, stored) ==
    IF up THEN [raised |-> FALSE, value |-> stored]
    ELSE [raised |-> TRUE, value |-> None]

\* redis_client.ping(): returns, or raises when the store is unreachable
redis_ping(up) == [raised |-> ~up]

\* mutant: the connection error of the first ping is not caught
_initialize_connection_raises(up) ==
    IF redis_ping(up).raised
    THEN [raised |-> TRUE, redis_client |-> FALSE]
    ELSE [raised |-> FALSE, redis_client |-> TRUE]

\* the client is kept iff from_url + ping succeed; "except Exception" leaves
\* redis_client = None and the constructor returns normally
_initialize_connection(up) ==
    IF redis_ping(up).raised
    THEN [raised |-> FALSE, redis_client |-> FALSE]
    ELSE [raised |-> FALSE, redis_client |-> TRUE]

\* mutant: every answer of the store is cached, "" included
_get_from_redis_caches_any(client, up, stored, cache, key, t) ==
    LET g == redis_get(up, stored) IN
    IF ~client THEN [gets |-> 0, exc |-> FALSE, ret |-> None, cache |-> cache]
    ELSE IF g.raised THEN [gets |-> 1, exc |-> FALSE, ret |-> None, cache |-> cache]
    ELSE IF g.value # None
         THEN [gets |-> 1, exc |-> FALSE, ret |-> g.value,
               cache |-> set(cache, key, g.value[1], t)]
         ELSE [gets |-> 1, exc |-> FALSE, ret |-> g.value, cache |-> cache]

\* mutant: the exception of redis_client.get is not caught
_get_from_redis_no_except(client, up, stored, cache, key, t) ==
    LET g == redis_get(up, stored) IN
    IF ~client THEN [gets |-> 0, exc |-> FALSE, ret |-> None, cache |-> cache]
    ELSE IF g.raised THEN [gets |-> 1, exc |-> TRUE, ret |-> None, cache |-> cache]
    ELSE IF TruthyStr(g.value)
         THEN [gets |-> 1, exc |-> FALSE, ret |-> g.value,
               cache |-> set(cache, key, g.value[1], t)]
         ELSE [gets |-> 1, exc |-> FALSE, ret |-> g.value, cache |-> cache]

\* mutant: a key missing upstream invalidates the local entry
_get_from_redis_evicts_missing(client, up, stored, cache, key, t) ==
    LET g == redis_get(up, stored) IN
    IF ~client THEN [gets |-> 0, exc |-> FALSE, ret |-> None, cache |-> cache]
    ELSE IF g.raised THEN [gets |-> 1, exc |-> FALSE, ret |-> None, cache |-> cache]
    ELSE IF TruthyStr(g.value)
         THEN [gets |-> 1, exc |-> FALSE, ret |-> g.value,
               cache |-> set(cache, key, g.value[1], t)]
         ELSE IF g.value = None
         THEN [gets |-> 1, exc |-> FALSE, ret |-> g.value,
               cache |-> [cache EXCEPT ![key] = None]]
         ELSE [gets |-> 1, exc |-> FALSE, ret |-> g.value, cache |-> cache]

\* mutant: a missing client is connected on demand when the store answers
_get_from_redis_reconnects(client, up, stored, cache, key, t) ==
    LET g == redis_get(up, stored)
        connected == client \/ ~redis_ping(up).raised
    IN
    IF ~connected
    THEN [gets |-> 0, exc |-> FALSE, ret |-> None, cache |-> cache]
    ELSE IF g.raised
    THEN [gets |-> 1, exc |-> FALSE, ret |-> None, cache |-> cache]
    ELSE IF TruthyStr(g.value)
         THEN [gets |-> 1, exc |-> FALSE, ret |-> g.value,
               cache |-> set(cache, key, g.value[1], t)]
         ELSE [gets |-> 1, exc |-> FALSE, ret |-> g.value, cache |-> cache]

\* mutant: a failed redis_client.get is tried a second time
_get_from_redis_retries(client, up, stored, cache, key, t) ==
    LET g1 == redis_get(up, stored)
        g == IF g1.raised THEN redis_get(up, stored) ELSE g1
        n == IF g1.raised THEN 2 ELSE 1
    IN
    IF ~client THEN [gets |-> 0, exc |-> FALSE, ret |-> None, cache |-> cache]
    ELSE IF g.raised
    THEN [gets |-> n, exc |-> FALSE, ret |-> None, cache |-> cache]
    ELSE IF TruthyStr(g.value)
         THEN [gets |-> n, exc |-> FALSE, ret |-> g.value,
               cache |-> set(cache, key, g.value[1], t)]
         ELSE [gets |-> n, exc |-> FALSE, ret |-> g.value, cache |-> cache]

\* stored: what the store holds for key now; up: whether the store answers.
\* gets: the calls of redis_client.get made.
\* exc: an exception leaves the function (never, "except Exception" returns None)
_get_from_redis(client, up, stored, cache, key, t) ==
    LET g == redis_get(up, stored) IN
    IF ~client THEN [gets |-> 0, exc |-> FALSE, ret |-> None, cache |-> cache]
    ELSE IF g.raised THEN [gets |-> 1, exc |-> FALSE, ret |-> None, cache |-> cache]
    ELSE IF TruthyStr(g.value)
         THEN [gets |-> 1, exc |-> FALSE, ret |-> g.value,
               cache |-> set(cache, key, g.value[1], t)]
         ELSE [gets |-> 1, exc |-> FALSE, ret |-> g.value, cache |-> cache]

\* mutant: the expiry test is dropped
cache_expired_never(cache_age) == FALSE

\* mutant: the expiry test is off by one tick
cache_expired_late(cache_age) ==
    TruthyNum(cache_age) /\ cache_age[1] > Seconds(cache_ttl_seconds) + 1

\* mutant: the expiry test is not strict
cache_expired_at_ttl(cache_age) ==
    TruthyNum(cache_age) /\ cache_age[1] >= Seconds(cache_ttl_seconds)

\* get_value's test "cache_age and cache_age > settings.cache_ttl_seconds"
cache_expired(cache_age) ==
    TruthyNum(cache_age) /\ cache_age[1] > Seconds(cache_ttl_seconds)

NoCacheMessage == "Redis indisponivel e nenhum valor em cache local"
ExpiredMessage == "Redis indisponivel ha mais de TTL s"
\* what the framework answers when an exception other than HTTPException
\* leaves a handler
InternalServerError == [status |-> 500]

\* mutant: serving a cached value refreshes its timestamp
get_value_refreshes(client, up, stored, cache, key, t) ==
    LET f == _get_from_redis(client, up, stored, cache, key, t)
        value == f.ret
        cached == get(f.cache, key)
        cache_age == get_age_seconds(f.cache, key, t)
    IN
    IF f.exc
    THEN [cache |-> f.cache, fetched |-> value, gets |-> f.gets, ret |-> InternalServerError]
    ELSE IF TruthyStr(value)
    THEN [cache |-> f.cache, fetched |-> value, gets |-> f.gets,
          ret |-> [status |-> 200, value |-> value[1]]]
    ELSE IF cached = None
    THEN [cache |-> f.cache, fetched |-> value, gets |-> f.gets,
          ret |-> [status |-> 503,
                   detail |-> [error |-> "Service Unavailable",
                               message |-> NoCacheMessage,
                               key |-> key]]]
    ELSE IF cache_expired(cache_age)
    THEN [cache |-> f.cache, fetched |-> value, gets |-> f.gets,
          ret |-> [status |-> 503,
                   detail |-> [error |-> "Service Unavailable",
                               message |-> ExpiredMessage,
                               cache_age_seconds |-> int(cache_age[1]),
                               key |-> key]]]
    ELSE [cache |-> set(f.cache, key, cached[1], t), fetched |-> value, gets |-> f.gets,
          ret |-> [status |-> 200, value |-> cached[1]]]

\* mutant: an entry found expired is deleted
get_value_evicts_expired(client, up, stored, cache, key, t) ==
    LET f == _get_from_redis(client, up, stored, cache, key, t)
        value == f.ret
        cached == get(f.cache, key)
        cache_age == get_age_seconds(f.cache, key, t)
    IN
    IF f.exc
    THEN [cache |-> f.cache, fetched |-> value, gets |-> f.gets, ret |-> InternalServerError]
    ELSE IF TruthyStr(value)
    THEN [cache |-> f.cache, fetched |-> value, gets |-> f.gets,
          ret |-> [status |-> 200, value |-> value[1]]]
    ELSE IF cached = None
    THEN [cache |-> f.cache, fetched |-> value, gets |-> f.gets,
          ret |-> [status |-> 503,
                   detail |-> [error |-> "Service Unavailable",
                               message |-> NoCacheMessage,
                               key |-> key]]]
    ELSE IF cache_expired(cache_age)
    THEN [cache |-> [f.cache EXCEPT ![key] = None], fetched |-> value, gets |-> f.gets,
          ret |-> [status |-> 503,
                   detail |-> [error |-> "Service Unavailable",
                               message |-> ExpiredMessage,
                               cache_age_seconds |-> int(cache_age[1]),
                               key |-> key]]]
    ELSE [cache |-> f.cache, fetched |-> value, gets |-> f.gets,
          ret |-> [status |-> 200, value |-> cached[1]]]

get_value(client, up, stored, cache, key, t) ==
    LET f == _get_from_redis(client, up, stored, cache, key, t)
        value == f.ret
        cached == get(f.cache, key)
        cache_age == get_age_seconds(f.cache, key, t)
    IN
    IF f.exc
    THEN [cache |-> f.cache, fetched |-> value, gets |-> f.gets, ret |-> InternalServerError]
    ELSE IF TruthyStr(value)
    THEN [cache |-> f.cache, fetched |-> value, gets |-> f.gets,
          ret |-> [status |-> 200, value |-> value[1]]]
    ELSE IF cached = None
    THEN [cache |-> f.cache, fetched |-> value, gets |-> f.gets,
          ret |-> [status |-> 503,
                   detail |-> [error |-> "Service Unavailable",
                               message |-> NoCacheMessage,
                               key |-> key]]]
    ELSE IF cache_expired(cache_age)
    THEN [cache |-> f.cache, fetched |-> value, gets |-> f.gets,
          ret |-> [status |-> 503,
                   detail |-> [error |-> "Service Unavailable",
                               message |-> ExpiredMessage,
                               cache_age_seconds |-> int(cache_age[1]),
                               key |-> key]]]
    ELSE [cache |-> f.cache, fetched |-> value, gets |-> f.gets,
          ret |-> [status |-> 200, value |-> cached[1]]]

get_open_time(client, up, stored, cache, t) ==
    get_value(client, up, stored, cache, redis_key_open, t)

get_close_time(client, up, stored, cache, t) ==
    get_value(client, up, stored, cache, redis_key_close, t)

\* mutant: a failed ping is tried a second time
is_connected_retries(client, up) ==
    IF ~client THEN [pings |-> 0, ret |-> FALSE]
    ELSE IF redis_ping(up).raised
    THEN [pings |-> 2, ret |-> ~redis_ping(up).raised]
    ELSE [pings |-> 1, ret |-> TRUE]

\* pings: the calls of redis_client.ping made
is_connected(client, up) ==
    IF ~client THEN [pings |-> 0, ret |-> FALSE]
    ELSE IF redis_ping(up).raised THEN [pings |-> 1, ret |-> FALSE]
    ELSE [pings |-> 1, ret |-> TRUE]

get_cache_status(client, up, cache, t) ==
    LET open_age == get_age_seconds(cache, redis_key_open, t)
        close_age == get_age_seconds(cache, redis_key_close, t)
        connected == is_connected(client, up)
    IN [pings |-> connected.pings,
        ret |->
          [redis_connected |-> connected.ret,
           open_cache_age_seconds |->
               IF TruthyNum(open_age) THEN Some(int(open_age[1])) ELSE None,
           close_cache_age_seconds |->
               IF TruthyNum(close_age) THEN Some(int(close_age[1])) ELSE None,
           cache_ttl_seconds |-> cache_ttl_seconds]]

\* ---- routers/health.py ----------------------------------------------------
\* mutant: the cache is looked at before the connection
health_check_cache_first(client, up, cache, t) ==
    LET called == get_cache_status(client, up, cache, t)
        cache_status == called.ret
        redis_connected == cache_status.redis_connected
    IN
    IF cache_status.open_cache_age_seconds # None
    THEN [pings |-> called.pings,
          ret |-> [status |-> "degraded", redis_status |-> "disconnected",
                   cache |-> cache_status]]
    ELSE IF redis_connected
    THEN [pings |-> called.pings,
          ret |-> [status |-> "healthy", redis_status |-> "connected",
                   cache |-> cache_status]]
    ELSE [pings |-> called.pings,
          ret |-> [status |-> "unhealthy", redis_status |-> "disconnected",
                   cache |-> cache_status]]

health_check(client, up, cache, t) ==
    LET called == get_cache_status(client, up, cache, t)
        cache_status == called.ret
        redis_connected == cache_status.redis_connected
    IN
    IF redis_connected
    THEN [pings |-> called.pings,
          ret |-> [status |-> "healthy", redis_status |-> "connected",
                   cache |-> cache_status]]
    ELSE IF cache_status.open_cache_age_seconds # None
    THEN [pings |-> called.pings,
          ret |-> [status |-> "degraded", redis_status |-> "disconnected",
                   cache |-> cache_status]]
    ELSE [pings |-> called.pings,
          ret |-> [status |-> "unhealthy", redis_status |-> "disconnected",
                   cache |-> cache_status]]

\* ---- routers/hours.py -----------------------------------------------------
\* mutant: a failed close time is answered as an empty field
get_trading_hours_defaults(client, up, stored_open, stored_close, cache, t) ==
    LET o == get_open_time(client, up, stored_open, cache, t)
        c == get_close_time(client, up, stored_close, o.cache, t)
    IN
    IF o.ret.status # 200
    THEN [cache |-> o.cache, calls |-> <<o.ret>>, ret |-> o.ret]
    ELSE [cache |-> c.cache, calls |-> <<o.ret, c.ret>>,
          ret |-> [status |-> 200,
                   body |-> [open |-> o.ret.value,
                             close |-> IF c.ret.status = 200
                                       THEN c.ret.value ELSE ""]]]

\* GET /v1/hours: the open time, then the close time; the HTTPException of
\* the first failing get_value leaves the handler and is the response.
\* calls: the outcomes of the get_value calls made, in order
get_trading_hours(client, up, stored_open, stored_close, cache, t) ==
    LET o == get_open_time(client, up, stored_open, cache, t)
        c == get_close_time(client, up, stored_close, o.cache, t)
    IN
    IF o.ret.status # 200
    THEN [cache |-> o.cache, calls |-> <<o.ret>>, ret |-> o.ret]
    ELSE IF c.ret.status # 200
    THEN [cache |-> c.cache, calls |-> <<o.ret, c.ret>>, ret |-> c.ret]
    ELSE [cache |-> c.cache, calls |-> <<o.ret, c.ret>>,
          ret |-> [status |-> 200,
                   body |-> [open |-> o.ret.value, close |-> c.ret.value]]]

\* ---- routers/dates.py -----------------------------------------------------
\* A query string matched by ^\d{4}-\d{2}-\d{2}$ is the triple <<y, m, d>> of
\* its fields; a datetime.date is its day number (date.toordinal(), counted
\* here from 1 January of the year before min_date_year).
min_date_year == 2006
FirstYear == min_date_year - 1

IsLeap(y) == (y % 4 = 0 /\ y % 100 # 0) \/ y % 400 = 0
DaysInMonth(y, m) ==
    IF m = 2 THEN (IF IsLeap(y) THEN 29 ELSE 28)
    ELSE IF m \in {4, 6, 9, 11} THEN 30
    ELSE 31

RECURSIVE days_before(_, _)
days_before(y, m) ==
    IF y = FirstYear /\ m = 1 THEN 0
    ELSE IF m = 1 THEN days_before(y - 1, 12) + 31
    ELSE days_before(y, m - 1) + DaysInMonth(y, m - 1)

\* date(y, m, d).toordinal()
toordinal(ymd) == days_before(ymd[1], ymd[2]) + ymd[3]

RECURSIVE ymd_from(_, _, _)
ymd_from(n, y, m) ==
    IF n > DaysInMonth(y, m)
    THEN IF m = 12 THEN ymd_from(n - DaysInMonth(y, m), y + 1, 1)
         ELSE ymd_from(n - DaysInMonth(y, m), y, m + 1)
    ELSE <<y, m, n>>

\* date.fromordinal(n).isoformat(): the fields of the day numbered n
isoformat(n) == ymd_from(n, FirstYear, 1)

\* date.fromisoformat(text): the date, or None for the ValueError of a text
\* that names no day of the calendar
fromisoformat(text) ==
    IF /\ text[1] >= FirstYear
       /\ text[2] \in 1..12
       /\ text[3] \in 1..DaysInMonth(text[1], text[2])
    THEN Some(toordinal(text))
    ELSE None

\* get_min_allowed_date().date()
get_min_allowed_date == toordinal(<<min_date_year, 1, 1>>)

RECURSIVE SortedSeq(_)
SortedSeq(S) ==
    IF S = {} THEN <<>>
    ELSE LET m == CHOOSE x \in S : \A y \in S : x <= y
         IN <<m>> \o SortedSeq(S \ {m})

\* bvmf_calendar.sessions_in_range(start_date, end_date): the sessions of the
\* range in date order; raises when the range leaves the calendar's bounds
sessions_in_range(calendar, start_date, end_date) ==
    IF end_date > calendar.last
    THEN [raised |-> TRUE, value |-> <<>>]
    ELSE [raised |-> FALSE,
          value |-> SortedSeq({d \in calendar.sessions :
                                  start_date <= d /\ d <= end_date})]

\* mutant: the minimum date itself is rejected
validate_range_excludes_min(start_date, end_date) ==
    IF start_date <= get_min_allowed_date
    THEN Some([status |-> 400, detail |-> "Data inicial deve ser >= min_date"])
    ELSE IF end_date < start_date
    THEN Some([status |-> 400, detail |-> "Data final deve ser >= data inicial"])
    ELSE None

\* the two range checks of get_trading_days: the 400 raised, or None
validate_range(start_date, end_date) ==
    IF start_date < get_min_allowed_date
    THEN Some([status |-> 400, detail |-> "Data inicial deve ser >= min_date"])
    ELSE IF end_date < start_date
    THEN Some([status |-> 400, detail |-> "Data final deve ser >= data inicial"])
    ELSE None

\* mutant: the loop stops before the end date
RECURSIVE all_days_open_end(_, _)
all_days_open_end(current, end_date) ==
    IF current < end_date
    THEN <<current>> \o all_days_open_end(current + 1, end_date)
    ELSE <<>>

\* the loop "while current <= end_date" that collects every date of the range
RECURSIVE all_days(_, _)
all_days(current, end_date) ==
    IF current <= end_date
    THEN <<current>> \o all_days(current + 1, end_date)
    ELSE <<>>

Elements(seq) == {seq[i] : i \in DOMAIN seq}

\* GET /v1/trading-days
get_trading_days(start, end, exclude, calendar) ==
    LET start_date == fromisoformat(start)
        end_date == fromisoformat(end)
    IN
    IF start_date = None \/ end_date = None
    THEN [status |-> 400, detail |-> "Formato de data invalido"]
    ELSE IF validate_range(start_date[1], end_date[1]) # None
    THEN validate_range(start_date[1], end_date[1])[1]
    ELSE LET schedule == sessions_in_range(calendar, start_date[1], end_date[1])
             trading_days == schedule.value
             non_trading_days ==
                 SelectSeq(all_days(start_date[1], end_date[1]),
                           LAMBDA day : day \notin Elements(trading_days))
         IN
         IF schedule.raised
         THEN [status |-> 500, detail |-> "Erro ao consultar calendario"]
         ELSE IF exclude
         THEN [status |-> 200,
               body |-> [i \in DOMAIN non_trading_days |->
                            isoformat(non_trading_days[i])]]
         ELSE [status |-> 200,
               body |-> [i \in DOMAIN trading_days |->
                            isoformat(trading_days[i])]]

\* the start and end texts of the requests explored
QueryDates ==
    {<<2005, 12, 30>>, <<2005, 12, 31>>, <<2006, 1, 1>>, <<2006, 1, 2>>,
     <<2006, 1, 3>>, <<2006, 1, 4>>, <<2006, 2, 30>>}

\* the calendars explored: any set of sessions among the first days of 2006,
\* covering the days up to `last`
Calendars ==
    [sessions : SUBSET {toordinal(<<2006, 1, d>>) : d \in 1..4},
     last : {toordinal(<<2006, 1, 3>>), toordinal(<<2006, 1, 4>>)}]

\* ---- state machine --------------------------------------------------------
NoResponse == [op |-> "none"]
\* no get_value call is running outside the handlers
NoCalls == <<>>

Init ==
    /\ now = 0
    /\ store_up \in BOOLEAN
    /\ started = ~_initialize_connection(store_up).raised
    /\ redis_client = _initialize_connection(store_up).redis_client
    /\ local_cache = [k \in Keys |-> None]
    /\ last_fetch = [k \in Keys |-> None]
    /\ resp = NoResponse
    /\ inflight = NoCalls

\* the wall clock advances
Tick ==
    /\ now < MaxTime
    /\ now' = now + 1
    /\ UNCHANGED <<store_up, started, redis_client, local_cache, last_fetch, resp, inflight>>

\* the remote store becomes unreachable
StoreGoesDown ==
    /\ store_up
    /\ store_up' = FALSE
    /\ UNCHANGED <<now, started, redis_client, local_cache, last_fetch, resp, inflight>>

\* the remote store becomes reachable again
StoreComesUp ==
    /\ ~store_up
    /\ store_up' = TRUE
    /\ UNCHANGED <<now, started, redis_client, local_cache, last_fetch, resp, inflight>>

\* the condition of the store met by a fetch: the client was never connected,
\* the store does not answer, the key is missing upstream, or a string is held
StoreCondition(client, up, stored) ==
    IF ~client THEN "disconnected"
    ELSE IF ~up THEN "error"
    ELSE IF stored = None THEN "missing"
    ELSE "value"

\* one call of redis_service.get_value(key) made by a /v1/hours handler
Resolve(key) ==
    \E stored \in StoreValues :
        LET r == get_value(redis_client, store_up, stored, local_cache, key, now)
            obtained == redis_client /\ store_up /\ TruthyStr(stored)
        IN
        /\ started
        /\ local_cache' = r.cache
        /\ last_fetch' = IF obtained
                         THEN [last_fetch EXCEPT ![key] = <<stored[1], now>>]
                         ELSE last_fetch
        /\ resp' = [op |-> "get_value", key |-> key, at |-> now,
                    store_up |-> store_up,
                    cause |-> StoreCondition(redis_client, store_up, stored),
                    answer |-> IF redis_client /\ store_up THEN stored ELSE None,
                    fetched |-> r.fetched, gets |-> r.gets, ret |-> r.ret]
        /\ UNCHANGED <<now, store_up, started, redis_client, inflight>>

\* GET /v1/hours/open
GetOpenTime == Resolve(redis_key_open)

\* GET /v1/hours/close
GetCloseTime == Resolve(redis_key_close)

\* GET /v1/hours
GetTradingHours ==
    \E stored_open \in StoreValues, stored_close \in StoreValues :
        LET r == get_trading_hours(redis_client, store_up, stored_open,
                                   stored_close, local_cache, now)
            obtained_open == redis_client /\ store_up /\ TruthyStr(stored_open)
            obtained_close == /\ Len(r.calls) = 2
                              /\ redis_client /\ store_up
                              /\ TruthyStr(stored_close)
        IN
        /\ started
        /\ local_cache' = r.cache
        /\ last_fetch' =
             [k \in Keys |->
                 IF k = redis_key_open /\ obtained_open
                 THEN <<stored_open[1], now>>
                 ELSE IF k = redis_key_close /\ obtained_close
                 THEN <<stored_close[1], now>>
                 ELSE last_fetch[k]]
        /\ resp' = [op |-> "hours", at |-> now, store_up |-> store_up,
                    calls |-> r.calls, ret |-> r.ret]
        /\ UNCHANGED <<now, store_up, started, redis_client, inflight>>

\* mutant: the health check replaces a missing client when the store answers
HealthCheck_reconnects ==
    /\ started
    /\ redis_client' = (redis_client \/ ~redis_ping(store_up).raised)
    /\ resp' = [op |-> "health", at |-> now, store_up |-> store_up,
                pings |-> health_check(redis_client', store_up, local_cache,
                                       now).pings,
                body |-> health_check(redis_client', store_up, local_cache,
                                      now).ret]
    /\ UNCHANGED <<now, store_up, started, local_cache, last_fetch, inflight>>

\* GET /v1/health
HealthCheck ==
    /\ started
    /\ resp' = [op |-> "health", at |-> now, store_up |-> store_up,
                pings |-> health_check(redis_client, store_up, local_cache,
                                       now).pings,
                body |-> health_check(redis_client, store_up, local_cache,
                                      now).ret]
    /\ UNCHANGED <<now, store_up, started, redis_client, local_cache, last_fetch, inflight>>

Next ==
    \/ Tick
    \/ StoreGoesDown
    \/ StoreComesUp
    \/ GetOpenTime
    \/ GetCloseTime
    \/ GetTradingHours
    \/ HealthCheck

Spec == Init /\ [][Next]_vars

\* the requests GET /v1/trading-days?start=..&end=..&exclude=.. explored, each
\* against one calendar
TradingDaysRequests ==
    [op : {"trading_days_request"}, start : QueryDates, end : QueryDates,
     exclude : BOOLEAN, calendar : Calendars]

\* the service as constructed, with one trading-days request received
InitDates ==
    /\ now = 0
    /\ store_up \in BOOLEAN
    /\ started = ~_initialize_connection(store_up).raised
    /\ redis_client = _initialize_connection(store_up).redis_client
    /\ local_cache = [k \in Keys |-> None]
    /\ last_fetch = [k \in Keys |-> None]
    /\ resp \in TradingDaysRequests
    /\ inflight = NoCalls

\* GET /v1/trading-days answers the request received; it reads neither the
\* store nor the local cache
GetTradingDays ==
    /\ started
    /\ resp.op = "trading_days_request"
    /\ resp' = [op |-> "trading_days", start |-> resp.start, end |-> resp.end,
                exclude |-> resp.exclude, calendar |-> resp.calendar,
                ret |-> get_trading_days(resp.start, resp.end, resp.exclude,
                                        resp.calendar)]
    /\ UNCHANGED <<now, store_up, started, redis_client, local_cache,
                   last_fetch, inflight>>

NextDates == GetTradingDays

\* the trading-days endpoint on its own
SpecDates == InitDates /\ [][NextDates]_vars

\* ---- get_value called from several threads ---------------------------------
\* RedisService is a synchronous object shared through the module-level
\* redis_service and holds no lock.  SpecConc runs get_value calls on worker
\* threads; a call is interleaved with the others between the statements that
\* read or write shared state (the clock, the store, RedisCache.cache).
\* number of worker threads; each makes one call
MaxCallers == 2
\* last clock tick explored while the calls run
MaxRaceTime == 3
Callers == 1..MaxCallers

\* the frame of a call: pc is the statement it stands before; value is the
\* result of _get_from_redis; stamp is the datetime.now(TZ) read by set;
\* cached is the tuple read at line 118; at is the clock read by
\* get_age_seconds; wrote is the position of its cache write among all writes.
\* The calls start from a cache that is empty or holds what a resolve of the
\* open key stored at time 0; last_fetch keeps the pair of the last write.
IdleFrame ==
    [pc |-> "idle", key |-> redis_key_open, value |-> None, stamp |-> 0,
     cached |-> None, at |-> 0, wrote |-> 0, ret |-> NoResponse]

InitConc ==
    /\ now = 0
    /\ store_up \in BOOLEAN
    /\ started = ~_initialize_connection(store_up).raised
    /\ redis_client = _initialize_connection(store_up).redis_client
    /\ local_cache \in
         {[k \in Keys |-> None]} \cup
         (IF redis_client
          THEN {set([k \in Keys |-> None], redis_key_open, "10:00", now)}
          ELSE {})
    /\ last_fetch = local_cache
    /\ resp = [op |-> "writes", count |-> 0]
    /\ inflight = [c \in Callers |-> IdleFrame]

\* a thread enters get_value(key); lines 112, 78-83 and 87-90: the fetch; a
\* value goes on to local_cache.set,
\* anything else returns to get_value, which turns to the cache
CallFetch(c) ==
    \E key \in Keys, stored \in StoreValues :
        LET g == redis_get(store_up, stored)
            value == IF ~redis_client \/ g.raised THEN None ELSE g.value
        IN
        /\ started
        /\ inflight[c].pc = "idle"
        /\ inflight' = [inflight EXCEPT
                           ![c].key = key,
                           ![c].value = value,
                           ![c].pc = IF TruthyStr(value) THEN "set" ELSE "get"]
        /\ UNCHANGED <<now, store_up, started, redis_client, local_cache,
                       last_fetch, resp>>

\* the wall clock advances while calls run
TickConc ==
    /\ now < MaxRaceTime
    /\ now' = now + 1
    /\ UNCHANGED <<store_up, started, redis_client, local_cache, last_fetch,
                   resp, inflight>>

\* line 25, right-hand side: the tuple (value, datetime.now(TZ)) is built
CallSetNow(c) ==
    /\ inflight[c].pc = "set"
    /\ inflight' = [inflight EXCEPT ![c].stamp = now, ![c].pc = "store"]
    /\ UNCHANGED <<now, store_up, started, redis_client, local_cache,
                   last_fetch, resp>>

\* mutant: the write keeps the newer of the two timestamps
CallStore_newest_timestamp(c) ==
    LET f == inflight[c]
        old == get(local_cache, f.key)
        stamp == IF old # None /\ old[2] > f.stamp THEN old[2] ELSE f.stamp
    IN
    /\ f.pc = "store"
    /\ local_cache' = set(local_cache, f.key, f.value[1], stamp)
    /\ last_fetch' = [last_fetch EXCEPT ![f.key] = <<f.value[1], f.stamp>>]
    /\ resp' = [resp EXCEPT !.count = @ + 1]
    /\ inflight' = [inflight EXCEPT
                       ![c].pc = "done", ![c].wrote = resp.count + 1,
                       ![c].ret = [status |-> 200, value |-> f.value[1]]]
    /\ UNCHANGED <<now, store_up, started, redis_client>>

\* line 25, the assignment self.cache[key] = tuple, then lines 87 and 114-115:
\* the value fetched is returned
CallStore(c) ==
    LET f == inflight[c] IN
    /\ f.pc = "store"
    /\ local_cache' = set(local_cache, f.key, f.value[1], f.stamp)
    /\ last_fetch' = [last_fetch EXCEPT ![f.key] = <<f.value[1], f.stamp>>]
    /\ resp' = [resp EXCEPT !.count = @ + 1]
    /\ inflight' = [inflight EXCEPT
                       ![c].pc = "done", ![c].wrote = resp.count + 1,
                       ![c].ret = [status |-> 200, value |-> f.value[1]]]
    /\ UNCHANGED <<now, store_up, started, redis_client>>

\* lines 118-130: cached = self.local_cache.get(key)
CallGet(c) ==
    LET f == inflight[c]
        cached == get(local_cache, f.key)
    IN
    /\ f.pc = "get"
    /\ inflight' =
         IF cached = None
         THEN [inflight EXCEPT
                  ![c].pc = "done",
                  ![c].ret = [status |-> 503,
                              detail |-> [error |-> "Service Unavailable",
                                          message |-> NoCacheMessage,
                                          key |-> f.key]]]
         ELSE [inflight EXCEPT ![c].pc = "age", ![c].cached = cached]
    /\ UNCHANGED <<now, store_up, started, redis_client, local_cache,
                   last_fetch, resp>>

\* lines 131-149: cache_age = self.local_cache.get_age_seconds(key), which
\* reads the entry again, then the expiry test on cache_age and the return of
\* cached_value
CallAge(c) ==
    LET f == inflight[c]
        cache_age == get_age_seconds(local_cache, f.key, now)
    IN
    /\ f.pc = "age"
    /\ inflight' =
         IF cache_expired(cache_age)
         THEN [inflight EXCEPT
                  ![c].pc = "done", ![c].at = now,
                  ![c].ret = [status |-> 503,
                              detail |-> [error |-> "Service Unavailable",
                                          message |-> ExpiredMessage,
                                          cache_age_seconds |-> int(cache_age[1]),
                                          key |-> f.key]]]
         ELSE [inflight EXCEPT
                  ![c].pc = "done", ![c].at = now,
                  ![c].ret = [status |-> 200, value |-> f.cached[1]]]
    /\ UNCHANGED <<now, store_up, started, redis_client, local_cache,
                   last_fetch, resp>>

NextConc ==
    \/ TickConc
    \/ StoreGoesDown
    \/ StoreComesUp
    \/ \E c \in Callers : CallFetch(c)
    \/ \E c \in Callers : CallSetNow(c)
    \/ \E c \in Callers : CallStore(c)
    \/ \E c \in Callers : CallGet(c)
    \/ \E c \in Callers : CallAge(c)

SpecConc == InitConc /\ [][NextConc]_vars

\* ---- vocabulary of the properties -----------------------------------------
TTL == Seconds(cache_ttl_seconds)
IsResolve == resp.op = "get_value"
IsHealth == resp.op = "health"
\* the call went down the fallback path: the store fetch gave no value
Fallback == IsResolve /\ ~TruthyStr(resp.fetched)
\* the ping of the health call succeeded
PingOk == redis_client /\ resp.store_up
HasEntry(k) == local_cache[k] # None
AgeAt(k, t) == t - local_cache[k][2]
NoCachedValue(k) ==
    [status |-> 503,
     detail |-> [error |-> "Service Unavailable", message |-> NoCacheMessage,
                 key |-> k]]

\* C1: a value returned on the fallback path comes from the key's cache
\* entry, and that entry is at most TTL old at the moment of the call.
C1_BoundedStaleness ==
    (Fallback /\ resp.ret.status = 200) =>
        /\ HasEntry(resp.key)
        /\ resp.ret.value = local_cache[resp.key][1]
        /\ AgeAt(resp.key, resp.at) <= TTL

C1_Witness ==
    /\ Fallback /\ resp.ret.status = 200
    /\ ~resp.store_up
    /\ AgeAt(resp.key, resp.at) > 0

\* C2: with the store down, a resolve made before T+TTL, T the time of the
\* key's last successful fetch, returns the value of that fetch.
C2_ServedWithinTtl ==
    (/\ IsResolve /\ ~resp.store_up
     /\ last_fetch[resp.key] # None
     /\ resp.at < last_fetch[resp.key][2] + TTL)
    => resp.ret = [status |-> 200, value |-> last_fetch[resp.key][1]]

C2_Witness ==
    /\ IsResolve /\ ~resp.store_up
    /\ last_fetch[resp.key] # None
    /\ resp.at > last_fetch[resp.key][2]
    /\ resp.at < last_fetch[resp.key][2] + TTL
    /\ resp.ret.status = 200

\* C3 as stated: with the store down, a resolve made at or after T+TTL fails
\* with 'cache expired' and reports an age of at least TTL seconds.
C3_ExpiredAtOrAfterTtl ==
    (/\ IsResolve /\ ~resp.store_up
     /\ last_fetch[resp.key] # None
     /\ resp.at >= last_fetch[resp.key][2] + TTL)
    => /\ resp.ret.status = 503
       /\ resp.ret.detail.message = ExpiredMessage
       /\ resp.ret.detail.cache_age_seconds >= cache_ttl_seconds

\* C3 amended: with the store down, a resolve made strictly after T+TTL
\* fails with 'cache expired' (503 carrying cache_age_seconds and the key),
\* and the reported age is at least TTL seconds.
C3_ExpiredAfterTtl ==
    (/\ IsResolve /\ ~resp.store_up
     /\ last_fetch[resp.key] # None
     /\ resp.at > last_fetch[resp.key][2] + TTL)
    => /\ resp.ret.status = 503
       /\ DOMAIN resp.ret.detail = {"error", "message", "cache_age_seconds", "key"}
       /\ resp.ret.detail.message = ExpiredMessage
       /\ resp.ret.detail.key = resp.key
       /\ resp.ret.detail.cache_age_seconds >= cache_ttl_seconds
       /\ resp.ret.detail.cache_age_seconds =
              int(resp.at - last_fetch[resp.key][2])

C3_Witness ==
    /\ IsResolve /\ ~resp.store_up
    /\ last_fetch[resp.key] # None
    /\ resp.at > last_fetch[resp.key][2] + TTL
    /\ resp.ret.status = 503

\* C4: on the fallback path an entry whose age equals TTL is served, and
\* 'cache expired' is raised only for an age strictly greater than TTL;
\* RedisCache.is_expired draws the same line.
C4_TtlBoundary ==
    /\ (Fallback /\ HasEntry(resp.key) /\ AgeAt(resp.key, resp.at) = TTL)
        => /\ resp.ret = [status |-> 200, value |-> local_cache[resp.key][1]]
           /\ ~is_expired(local_cache, resp.key, cache_ttl_seconds, resp.at)
    /\ (Fallback /\ resp.ret.status = 503
            /\ resp.ret.detail.message = ExpiredMessage)
        => /\ AgeAt(resp.key, resp.at) > TTL
           /\ is_expired(local_cache, resp.key, cache_ttl_seconds, resp.at)

C4_Witness ==
    /\ Fallback /\ HasEntry(resp.key)
    /\ AgeAt(resp.key, resp.at) = TTL
    /\ resp.ret.status = 200

C6_Degraded ==
    (IsHealth /\ ~PingOk /\ (\E k \in Keys : HasEntry(k)))
    => resp.body.status = "degraded"

\* C7: whenever the ping succeeds, health reports 'healthy' and store status
\* 'connected', whatever the cache holds.
C7_Healthy ==
    (IsHealth /\ PingOk)
    => /\ resp.body.status = "healthy"
       /\ resp.body.redis_status = "connected"
       /\ resp.body.cache.redis_connected

C7_Witness ==
    /\ IsHealth /\ PingOk
    /\ resp.body.status = "healthy"
    /\ HasEntry(redis_key_open)
    /\ AgeAt(redis_key_open, resp.at) > TTL
    /\ ~HasEntry(redis_key_close)

\* C8 as stated: health reports 'unhealthy' if and only if the ping fails
\* and neither the open key nor the close key has a cache entry.
C8_Unhealthy ==
    IsHealth =>
        (resp.body.status = "unhealthy"
            <=> (~PingOk /\ \A k \in Keys : ~HasEntry(k)))

\* C9 as stated: whenever health reports 'degraded', the ping failed and
\* some tracked key has an entry of age <= TTL, which resolve would serve.
C9_DegradedHasValidCache ==
    (IsHealth /\ resp.body.status = "degraded")
    => /\ ~PingOk
       /\ \E k \in Keys :
            /\ HasEntry(k)
            /\ AgeAt(k, resp.at) <= TTL
            /\ get_value(redis_client, FALSE, None, local_cache, k, resp.at).ret
                   = [status |-> 200, value |-> local_cache[k][1]]

\* C10 as stated: get_age_seconds(key) is None exactly when the key has no
\* entry and is now - storedAt otherwise, and the ages reported by the cache
\* status are None exactly when the key has no entry.
C10_CacheAge ==
    /\ \A k \in Keys :
         /\ (get_age_seconds(local_cache, k, now) = None) <=> ~HasEntry(k)
         /\ HasEntry(k) =>
              get_age_seconds(local_cache, k, now) = Some(now - local_cache[k][2])
    /\ IsHealth =>
         /\ (resp.body.cache.open_cache_age_seconds = None)
                <=> ~HasEntry(redis_key_open)
         /\ (resp.body.cache.close_cache_age_seconds = None)
                <=> ~HasEntry(redis_key_close)

IsHours == resp.op = "hours"
FailedKey == IF Len(resp.calls) = 1 THEN redis_key_open ELSE redis_key_close

C13_HoursResponse ==
    IsHours =>
        /\ resp.calls[1].status = 200 => Len(resp.calls) = 2
        /\ resp.ret.status = 200
             <=> \A i \in {1, 2} :
                    i <= Len(resp.calls) /\ resp.calls[i].status = 200
        /\ resp.ret.status = 200 =>
             resp.ret.body = [open |-> resp.calls[1].value,
                              close |-> resp.calls[2].value]
        /\ resp.ret.status # 200 =>
             /\ resp.ret.status = 503
             /\ resp.ret = resp.calls[Len(resp.calls)]
             /\ resp.ret.detail.key = FailedKey
             /\ ("cache_age_seconds" \in DOMAIN resp.ret.detail)
                    <=> resp.ret.detail.message = ExpiredMessage
             /\ resp.ret.detail.message \in {ExpiredMessage, NoCacheMessage}

C13_Witness ==
    /\ IsHours
    /\ Len(resp.calls) = 2
    /\ resp.ret.status = 503
    /\ resp.ret.detail.key = redis_key_close
    /\ resp.ret.detail.message = ExpiredMessage

\* a step of the get_value call of GET /v1/hours/open or /v1/hours/close
ResolveStep ==
    /\ resp'.op = "get_value"
    /\ (resp' # resp \/ local_cache' # local_cache)

C17_HappyPath ==
    (IsResolve /\ resp.cause = "value") =>
        /\ resp.ret = [status |-> 200, value |-> resp.answer[1]]
        /\ local_cache[resp.key] = <<resp.answer[1], resp.at>>
        /\ get_age_seconds(local_cache, resp.key, resp.at) = Some(0)

\* C18: a resolve whose store fetch returns no value leaves every entry of
\* the local cache as it was, whether it serves the cached value, fails with
\* 'no cached value' or fails with 'cache expired'.
C18_FallbackNeverWrites ==
    [][(ResolveStep /\ resp'.fetched = None) =>
          local_cache' = local_cache]_vars

C18_Witness ==
    /\ Fallback
    /\ resp.fetched = None
    /\ resp.ret.status = 503
    /\ resp.ret.detail.message = ExpiredMessage
    /\ HasEntry(resp.key)

\* C19: the local cache holds an entry for a key only if a fetch for that
\* key obtained a value, and the entry's value is the one obtained by the
\* most recent such fetch.
C19_NoFabrication ==
    \A k \in Keys :
        HasEntry(k) =>
            /\ last_fetch[k] # None
            /\ local_cache[k][1] = last_fetch[k][1]

C19_Witness ==
    /\ HasEntry(redis_key_open)
    /\ HasEntry(redis_key_close)
    /\ local_cache[redis_key_open][1] # local_cache[redis_key_close][1]
    /\ local_cache[redis_key_open][2] > local_cache[redis_key_close][2]
    /\ IsResolve /\ Fallback

\* C20: in every step, each key's entry stays or is replaced by an entry
\* whose storedAt is greater than or equal to the previous one.
C20_StoredAtMonotonic ==
    [][\A k \in Keys :
          HasEntry(k) =>
              /\ local_cache'[k] # None
              /\ local_cache'[k][2] >= local_cache[k][2]]_vars

C20_Witness ==
    /\ IsResolve
    /\ resp.ret.status = 200
    /\ last_fetch[resp.key] # None
    /\ HasEntry(resp.key)
    /\ local_cache[resp.key][2] = resp.at
    /\ resp.at > 0

\* ---- GET /v1/trading-days ---------------------------------------------------
IsTradingDays == resp.op = "trading_days"
\* order of the texts YYYY-MM-DD
DateLT(a, b) ==
    \/ a[1] < b[1]
    \/ a[1] = b[1] /\ a[2] < b[2]
    \/ a[1] = b[1] /\ a[2] = b[2] /\ a[3] < b[3]
DateLE(a, b) == a = b \/ DateLT(a, b)
\* the texts that name a day
IsDate(a) == a[2] \in 1..12 /\ a[3] \in 1..DaysInMonth(a[1], a[2])
MinDateText == <<2006, 1, 1>>
\* every day from a to b, as texts
DaysBetween(a, b) ==
    {q \in (FirstYear..(min_date_year + 1)) \X (1..12) \X (1..31) :
        IsDate(q) /\ DateLE(a, q) /\ DateLE(q, b)}
Ascending(seq) ==
    \A i \in DOMAIN seq : \A j \in DOMAIN seq : i < j => DateLT(seq[i], seq[j])

\* C15: a start before 2006-01-01 is rejected with 400, an end before the
\* start is rejected with 400, and every request of dates with
\* 2006-01-01 <= start <= end passes validation.
C15_RangeValidation ==
    IsTradingDays =>
        /\ DateLT(resp.start, MinDateText) => resp.ret.status = 400
        /\ DateLT(resp.end, resp.start) => resp.ret.status = 400
        /\ (/\ IsDate(resp.start) /\ IsDate(resp.end)
            /\ DateLE(MinDateText, resp.start)
            /\ DateLE(resp.start, resp.end))
           => resp.ret.status # 400

C15_Witness ==
    /\ IsTradingDays
    /\ resp.start = MinDateText
    /\ resp.end = MinDateText
    /\ resp.ret.status = 200

\* C16: for a valid range and any calendar, the list of days with trading
\* and the list of days without trading are disjoint, together they are
\* exactly the days from start to end, and each is in ascending order.
C16_Partition ==
    (IsTradingDays /\ resp.ret.status = 200) =>
        LET with == get_trading_days(resp.start, resp.end, FALSE,
                                     resp.calendar).body
            without == get_trading_days(resp.start, resp.end, TRUE,
                                        resp.calendar).body
        IN /\ resp.ret.body = IF resp.exclude THEN without ELSE with
           /\ Elements(with) \cap Elements(without) = {}
           /\ Elements(with) \cup Elements(without)
                  = DaysBetween(resp.start, resp.end)
           /\ Elements(with)
                  = {isoformat(d) : d \in resp.calendar.sessions}
                        \cap DaysBetween(resp.start, resp.end)
           /\ Ascending(with)
           /\ Ascending(without)

C16_Witness ==
    /\ IsTradingDays
    /\ resp.ret.status = 200
    /\ resp.exclude
    /\ resp.start = <<2006, 1, 1>>
    /\ resp.end = <<2006, 1, 4>>
    /\ Len(resp.ret.body) = 2

\* ---- health is a query; attempts; no reconnection --------------------------
\* the age of the entry of key k at time t, None without an entry
AgeOpt(k, t) == IF HasEntry(k) THEN Some(AgeAt(k, t)) ELSE None
\* the age as the status reports it: whole seconds, absent for no entry and
\* for an age of zero
Reported(age) ==
    IF age # None /\ age[1] # 0 THEN Some(age[1] \div TicksPerSecond) ELSE None
\* the health body as a function of the ping result and the two cache ages
HealthOf(ping, open_age, close_age) ==
    [status |-> IF ping THEN "healthy"
                ELSE IF Reported(open_age) # None THEN "degraded"
                ELSE "unhealthy",
     redis_status |-> IF ping THEN "connected" ELSE "disconnected",
     cache |-> [redis_connected |-> ping,
                open_cache_age_seconds |-> Reported(open_age),
                close_cache_age_seconds |-> Reported(close_age),
                cache_ttl_seconds |-> cache_ttl_seconds]]

\* the body of the health response is that function of the state it was
\* computed in
HealthIsFunction ==
    resp.body = HealthOf(PingOk, AgeOpt(redis_key_open, resp.at),
                         AgeOpt(redis_key_close, resp.at))

\* C23: a health query leaves the local cache and the client as they were, and
\* its body is determined by the ping result and the cache ages at the time of
\* the query alone, whatever was answered before.
C23_HealthReadOnly ==
    [][IsHealth' =>
          /\ local_cache' = local_cache
          /\ redis_client' = redis_client
          /\ HealthIsFunction']_vars

\* a health query answered with the store down and both keys cached, made
\* after resolves had answered
C23_Witness ==
    /\ IsHealth
    /\ ~resp.store_up
    /\ HasEntry(redis_key_open) /\ HasEntry(redis_key_close)
    /\ resp.at > 0
    /\ resp.body.status = "degraded"

\* C24: a resolve makes one fetch attempt, and none without a client; a health
\* query makes one ping, and none without a client; a failed attempt is not
\* repeated within the call.
C24_NoRetries ==
    /\ IsResolve => resp.gets = (IF redis_client THEN 1 ELSE 0)
    /\ IsHealth => resp.pings = (IF redis_client THEN 1 ELSE 0)

\* a resolve whose only fetch attempt failed and that went on to the cache
C24_Witness ==
    /\ IsResolve
    /\ resp.cause = "error"
    /\ resp.gets = 1
    /\ resp.ret.status = 200

\* what a service without a client answers
DisconnectedAnswers ==
    /\ IsResolve =>
          /\ resp.gets = 0
          /\ resp.fetched = None
          /\ resp.ret = NoCachedValue(resp.key)
    /\ IsHours => resp.ret = NoCachedValue(redis_key_open)
    /\ IsHealth =>
          /\ resp.pings = 0
          /\ ~resp.body.cache.redis_connected
          /\ resp.body.status = "unhealthy"
    /\ \A k \in Keys : ~HasEntry(k)

\* C25: when the connection attempt of the constructor failed the client stays
\* missing; from then on no fetch and no ping reaches the store, every resolve
\* fails with 'no cached value' and health is 'unhealthy', also while the store
\* is reachable.
C25_NoReconnect ==
    [][~redis_client => (~redis_client' /\ DisconnectedAnswers')]_vars

\* a resolve that failed with the store reachable because the boot had failed
C25_Witness ==
    /\ ~redis_client
    /\ IsResolve
    /\ resp.store_up
    /\ resp.ret = NoCachedValue(resp.key)

\* ---- concurrent calls -----------------------------------------------------
Done(c) == inflight[c].pc = "done"
\* the call returned the value of the tuple it read from the cache
ServedCached(c) ==
    /\ Done(c)
    /\ ~TruthyStr(inflight[c].value)
    /\ inflight[c].ret.status = 200
\* no call is between its first and its last statement
Quiescent == \A c \in Callers : inflight[c].pc \in {"idle", "done"}
\* the calls that wrote the entry of key k
Writers(k) == {c \in Callers : inflight[c].key = k /\ inflight[c].wrote > 0}
LastWriter(k) ==
    CHOOSE c \in Writers(k) :
        \A d \in Writers(k) : inflight[d].wrote <= inflight[c].wrote

C22_LastWriterWins ==
    Quiescent =>
        \A k \in Keys :
            IF Writers(k) = {}
            THEN local_cache[k] = last_fetch[k]
            ELSE local_cache[k] = <<inflight[LastWriter(k)].value[1],
                                    inflight[LastWriter(k)].stamp>>

\* two calls raced on the open key with different values, and the one that read
\* the clock first wrote last
C22_Witness ==
    /\ Quiescent
    /\ \E c, d \in Writers(redis_key_open) :
          /\ inflight[c].wrote < inflight[d].wrote
          /\ inflight[d].stamp < inflight[c].stamp
          /\ inflight[c].value # inflight[d].value
====
